---- MODULE Spec2Model ----
(***************************************************************************)
(* Model of the cars ETL (src/etl_cars.py, src/db_cars.py).                *)
(*                                                                         *)
(* Two specifications share this module:                                   *)
(*   Spec           the Loader: load_cars step by step (get_conn,          *)
(*                  init_schema, _convert_row_for_db, upsert_cars, the     *)
(*                  finally clause) and direct calls of upsert_cars,       *)
(*                  against the table fact_cars;                           *)
(*   SpecTransform  the Transformer: transform_cars applied to bounded     *)
(*                  raw tables.                                            *)
(*                                                                         *)
(* A nullable value is a set with at most one element: NA is the empty     *)
(* set, Some(v) the singleton.  price_per_1000km is kept in hundredths     *)
(* (the column is rounded to 2 decimals), a load_ts is the instant the     *)
(* timestamp was taken.                                                    *)
(***************************************************************************)
EXTENDS Integers, Sequences, FiniteSets, TLC

VARIABLES
    store,      \* rows of table fact_cars (committed contents of the db file)
    schema,     \* TRUE once table fact_cars and its index exist
    pc,         \* position inside load_cars; "idle" between calls
    conn,       \* the connection of the current/last load_cars call
    df,         \* load_cars argument: the DataFrame, a sequence of rows
    rows,       \* tuples handed to upsert_cars (by load_cars or by a caller)
    outcome,    \* "running", or how the last call ended
    affected,   \* return value of the last successful call
    ops,        \* database operations performed by the current/last call
    reload,     \* load_cars is loading again the DataFrame it has just loaded
    raw,        \* transform_cars argument: the raw table
    tr          \* transform_cars result; status "pending" before the call

vars == <<store, schema, pc, conn, df, rows, outcome, affected, ops,
          reload, raw, tr>>

loadVars == <<store, schema, pc, conn, df, rows, outcome, affected, ops,
              reload>>

transformVars == <<raw, tr>>

----------------------------------------------------------------------------
(* Bounds *)

MaxBatch == 2       \* longest DataFrame / tuple list given to the Loader
MaxClock == 1       \* timestamps are drawn from 0..MaxClock
MaxRows == 3        \* longest raw table given to the Transformer

----------------------------------------------------------------------------
(* Nullable values *)

NA == {}

Some(v) == {v}

Val(o) == CHOOSE v \in o : TRUE

SeqsUpTo(S, n) == UNION {[1..k -> S] : k \in 0..n}

Times == 0..MaxClock

----------------------------------------------------------------------------
(* The store: DDL and UPSERT_SQL of db_cars.py *)

\* The column CHECK / NOT NULL constraints of the DDL, on one row.
DDL_Checks(r) ==
    /\ \A v \in r.model_year : v >= 1900
    /\ \A v \in r.price_sek : v >= 0
    /\ \A v \in r.odometer_km : v >= 0
    /\ \A v \in r.horsepower : v >= 0
    /\ \A v \in r.price_per_1000km : v >= 0
    /\ r.load_ts # NA

DDL_RegnrFreeNone(others, r) == TRUE

\* "regnr text unique" / ux_fact_cars_regnr: r may not carry the regnr of
\* another row of the table (NULLs never collide).
DDL_RegnrFree(others, r) ==
    r.regnr = NA \/ \A o \in others : o.regnr # r.regnr

KeyMatch_Never(table, r) == {}

\* Rows of the table with the primary key of r.
KeyMatch(table, r) == {e \in table : e.url # NA /\ e.url = r.url}

UPSERT_SQL_Merge(table, r) ==
    LET hit == KeyMatch(table, r)
        rest == table \ hit
        merged == {[f \in DOMAIN r |->
                       IF f \in {"url", "load_ts"} \/ r[f] # NA
                       THEN r[f] ELSE e[f]] : e \in hit}
    IN  IF ~DDL_Checks(r) THEN [ok |-> FALSE, table |-> table]
        ELSE IF ~DDL_RegnrFree(rest, r) THEN [ok |-> FALSE, table |-> table]
        ELSE IF hit = {} THEN [ok |-> TRUE, table |-> table \cup {r}]
        ELSE [ok |-> TRUE, table |-> rest \cup merged]

\* One execution of UPSERT_SQL: insert r, or on conflict(url) overwrite every
\* non-key column of the existing row with the excluded (incoming) values.
\* A violated constraint aborts the statement and leaves the table as it was.
UPSERT_SQL(table, r) ==
    LET hit == KeyMatch(table, r)
        rest == table \ hit
    IN  IF ~DDL_Checks(r) THEN [ok |-> FALSE, table |-> table]
        ELSE IF ~DDL_RegnrFree(rest, r) THEN [ok |-> FALSE, table |-> table]
        ELSE [ok |-> TRUE, table |-> rest \cup {r}]

\* conn.executemany(UPSERT_SQL, rows_list): the statements run in order
\* inside one implicit transaction and stop at the first failing one; the
\* rows applied before it are still in the (uncommitted) table.
RECURSIVE executemany(_, _, _)
executemany(table, rows_list, i) ==
    IF i > Len(rows_list) THEN [ok |-> TRUE, table |-> table]
    ELSE LET one == UPSERT_SQL(table, rows_list[i])
         IN  IF one.ok THEN executemany(one.table, rows_list, i + 1)
             ELSE [ok |-> FALSE, table |-> table]

with_conn_NoRollback(before, run) == run.table

\* "with conn:" commits when the block ends normally and rolls back when it
\* raises.
with_conn(before, run) == IF run.ok THEN run.table ELSE before

upsert_cars_Changed(table, rows_list) ==
    LET run == executemany(table, rows_list, 1)
    IN  IF rows_list = <<>>
        THEN [outcome |-> "ok", table |-> table, affected |-> 0, ops |-> {}]
        ELSE IF run.ok
        THEN [outcome |-> "ok", table |-> with_conn(table, run),
              affected |-> Cardinality(run.table \ table),
              ops |-> {"executemany", "commit"}]
        ELSE [outcome |-> "IntegrityError", table |-> with_conn(table, run),
              affected |-> 0, ops |-> {"executemany", "rollback"}]

\* upsert_cars(conn, rows) on a database whose table fact_cars exists: what
\* it returns or raises, the table it leaves, and the database operations it
\* performed.  An empty list returns 0 before the connection is used.
upsert_cars(table, rows_list) ==
    LET run == executemany(table, rows_list, 1)
    IN  IF rows_list = <<>>
        THEN [outcome |-> "ok", table |-> table, affected |-> 0, ops |-> {}]
        ELSE IF run.ok
        THEN [outcome |-> "ok", table |-> with_conn(table, run),
              affected |-> Len(rows_list), ops |-> {"executemany", "commit"}]
        ELSE [outcome |-> "IntegrityError", table |-> with_conn(table, run),
              affected |-> 0, ops |-> {"executemany", "rollback"}]

----------------------------------------------------------------------------
(* Row conversion: _convert_row_for_db of etl_cars.py *)

\* A cell of an integer column of the DataFrame: an integer, or a value
\* int() rejects (text that is not a number).
IntCell(n) == {[k |-> "int", v |-> n]}

TextCell == {[k |-> "text", v |-> 0]}

\* _none(v, cast): missing stays missing, anything else goes through cast.
\* fails: the cast raises.
none_fails(cell) == \E c \in cell : c.k = "text"

none_int(cell) == {c.v : c \in cell}

\* The tuple built for one DataFrame row, stamped with now.
convert_one(r, now) ==
    [url |-> r.url, regnr |-> r.regnr,
     model_year |-> none_int(r.model_year),
     price_sek |-> none_int(r.price_sek),
     odometer_km |-> none_int(r.odometer_km),
     fuel |-> r.fuel, body_type |-> r.body_type,
     horsepower |-> none_int(r.horsepower),
     price_per_1000km |-> r.price_per_1000km,
     load_ts |-> Some(now)]

IntCols == {"model_year", "price_sek", "odometer_km", "horsepower"}

_convert_row_for_db(frame, now) ==
    IF \E i \in 1..Len(frame) : \E c \in IntCols : none_fails(frame[i][c])
    THEN [ok |-> FALSE, rows |-> <<>>]
    ELSE [ok |-> TRUE, rows |-> [i \in 1..Len(frame) |-> convert_one(frame[i], now)]]

----------------------------------------------------------------------------
(* The Transformer: transform_cars of etl_cars.py *)

\* Spreadsheet header -> column of the normalised table.
COLUMN_MAP ==
    [Url |-> "url", Registreringsnummer |-> "regnr"]
    @@ ("Modellår" :> "model_year")
    @@ ("Pris (kr)" :> "price_sek")
    @@ ("Mätarställning (km)" :> "odometer_km")
    @@ ("Bränsle" :> "fuel")
    @@ ("Biltyp" :> "body_type")
    @@ ("Hästkrafter" :> "horsepower")

_NUMERIC_COLS == {"model_year", "price_sek", "odometer_km", "horsepower"}

StringCols == {"url", "regnr", "fuel", "body_type"}

\* The header that COLUMN_MAP sends to a column.
HeaderOf(col) == CHOOSE h \in DOMAIN COLUMN_MAP : COLUMN_MAP[h] = col

\* A raw cell is missing (NA), a text (a sequence of characters) or a number
\* n, or n + 1/2 when half.
Text(s) == {[k |-> "text", s |-> s, n |-> 0, half |-> FALSE]}

Num(n) == {[k |-> "num", s |-> <<>>, n |-> n, half |-> FALSE]}

NumAndHalf(n) == {[k |-> "num", s |-> <<>>, n |-> n, half |-> TRUE]}

\* _safe_get(df, col): the column, or all NA when the table has no such
\* column.
_safe_get(table, col) ==
    [i \in 1..Len(table.rows) |->
        IF col \in table.columns THEN table.rows[i][col] ELSE NA]

\* str.strip(): drop leading and trailing blanks.
RECURSIVE lstrip(_)
lstrip(s) == IF s # <<>> /\ Head(s) = " " THEN lstrip(Tail(s)) ELSE s

RECURSIVE rstrip(_)
rstrip(s) ==
    IF s # <<>> /\ s[Len(s)] = " " THEN rstrip(SubSeq(s, 1, Len(s) - 1)) ELSE s

str_strip(s) == rstrip(lstrip(s))

\* astype("string"): the text of a cell.
astype_string(c) ==
    IF c.k = "text" THEN c.s
    ELSE IF c.half THEN <<ToString(c.n), ".", "5">>
    ELSE <<ToString(c.n)>>

\* .astype("string").str.strip().replace({"": pd.NA}) on one cell.
clean_string(cell) ==
    {str_strip(astype_string(c)) : c \in cell} \ {<<>>}

IsDigit(ch) == \E d \in 0..9 : ToString(d) = ch

DigitOf(ch) == CHOOSE d \in 0..9 : ToString(d) = ch

RECURSIVE ParseDigits(_, _)
ParseDigits(s, acc) ==
    IF s = <<>> THEN acc ELSE ParseDigits(Tail(s), 10 * acc + DigitOf(Head(s)))

\* pd.to_numeric(..., errors="coerce") on one cell: a number stays, a text of
\* digits is parsed, any other text becomes missing.
to_numeric(cell) ==
    {IF c.k = "num" THEN [n |-> c.n, half |-> c.half]
     ELSE [n |-> ParseDigits(c.s, 0), half |-> FALSE] :
        c \in {d \in cell : d.k = "num" \/ (d.s # <<>> /\ \A i \in DOMAIN d.s : IsDigit(d.s[i]))}}

\* .astype("Int64") raises on a column holding a number that is not whole.
astype_Int64_raises(column) ==
    \E i \in DOMAIN column : \E x \in to_numeric(column[i]) : x.half

astype_Int64(cell) == {[k |-> "int", v |-> x.n] : x \in to_numeric(cell)}

\* _normalize_columns(df)
_normalize_columns(table) ==
    IF \E col \in _NUMERIC_COLS : astype_Int64_raises(_safe_get(table, HeaderOf(col)))
    THEN [ok |-> FALSE, rows |-> <<>>]
    ELSE [ok |-> TRUE,
          rows |-> [i \in 1..Len(table.rows) |->
                      [col \in StringCols \cup _NUMERIC_COLS |->
                          IF col \in StringCols
                          THEN clean_string(_safe_get(table, HeaderOf(col))[i])
                          ELSE astype_Int64(_safe_get(table, HeaderOf(col))[i])]]]

round_Floor(num, den) ==
    LET n == IF den < 0 THEN -num ELSE num
        d == IF den < 0 THEN -den ELSE den
    IN  n \div d

\* Series.round: num / den rounded to the nearest integer, ties to the even
\* one (den # 0).
round(num, den) ==
    LET n == IF den < 0 THEN -num ELSE num
        d == IF den < 0 THEN -den ELSE den
        fl == n \div d
        rem == n - fl * d
    IN  IF 2 * rem > d THEN fl + 1
        ELSE IF 2 * rem = d THEN fl + (fl % 2)
        ELSE fl

\* price_per_1000km of one normalised row, in hundredths:
\* ((price / odo) * 1000.0).mask(invalid).round(2)
p_per_1000(r) ==
    IF r.price_sek = NA \/ r.odometer_km = NA THEN NA
    ELSE LET price == Val(r.price_sek).v
             odo == Val(r.odometer_km).v
         IN  IF odo = 0 THEN NA ELSE Some(round(price * 1000 * 100, odo))

\* out[out["url"].notna()]
url_notna(table) == SelectSeq(table, LAMBDA r : r.url # NA)

KeptFirst(table) ==
    {i \in DOMAIN table : \A j \in 1..(i-1) : table[j].url # table[i].url}

\* Positions that keep="last" retains: no later row has the url.
KeptLast(table) ==
    {i \in DOMAIN table : \A j \in (i+1)..Len(table) : table[j].url # table[i].url}

\* The rows at the positions of a set, in their order (the index is reset).
RECURSIVE Take(_, _, _)
Take(table, keep, i) ==
    IF i > Len(table) THEN <<>>
    ELSE (IF i \in keep THEN <<table[i]>> ELSE <<>>) \o Take(table, keep, i + 1)

drop_duplicates_KeepFirst(table) == Take(table, KeptFirst(table), 1)

\* out.drop_duplicates(subset=["url"], keep="last")
drop_duplicates(table) == Take(table, KeptLast(table), 1)

\* transform_cars(df): the resulting table, or the exception.
transform_cars(table) ==
    LET norm == _normalize_columns(table)
        derived == [i \in DOMAIN norm.rows |->
                       norm.rows[i] @@ [price_per_1000km |-> p_per_1000(norm.rows[i])]]
    IN  IF ~norm.ok THEN [status |-> "TypeError", out |-> <<>>]
        ELSE [status |-> "ok", out |-> drop_duplicates(url_notna(derived))]

----------------------------------------------------------------------------
(* Inputs of the Loader *)

\* The non-key columns of the row of tests/test_cars.py.
Listed ==
    [model_year |-> IntCell(2020), price_sek |-> IntCell(200000),
     odometer_km |-> IntCell(5000), fuel |-> Some("Bensin"),
     body_type |-> Some("Kombi"), horsepower |-> IntCell(150),
     price_per_1000km |-> Some(4000000)]

Blank ==
    [model_year |-> NA, price_sek |-> NA, odometer_km |-> NA, fuel |-> NA,
     body_type |-> NA, horsepower |-> NA, price_per_1000km |-> NA]

\* Rows the store rejects, and one row int() rejects.
Rejected ==
    {[Blank EXCEPT !.model_year = IntCell(1899)],
     [Blank EXCEPT !.price_sek = IntCell(-1)],
     [Blank EXCEPT !.odometer_km = IntCell(-1)],
     [Blank EXCEPT !.horsepower = IntCell(-1)],
     [Blank EXCEPT !.price_per_1000km = Some(-1)],
     [Blank EXCEPT !.model_year = TextCell]}

FrameRow(u, r, cols) == [url |-> Some(u), regnr |-> r] @@ cols

\* Rows the store accepts on their own.
AcceptedRows ==
    {FrameRow("http://test.se/1", Some("ABC123"), Listed),
     FrameRow("http://test.se/1", Some("XYZ789"), Listed),
     FrameRow("http://test.se/2", Some("ABC123"), Listed),
     FrameRow("http://test.se/2", NA, Listed),
     FrameRow("http://test.se/1", NA, Blank)}

RejectedRows == {FrameRow("http://test.se/2", NA, c) : c \in Rejected}

FrameRows == AcceptedRows \cup RejectedRows

\* DataFrames of up to MaxBatch rows, at most one of them a rejected row.
DataFrames ==
    {f \in SeqsUpTo(FrameRows, MaxBatch) :
        Cardinality({i \in DOMAIN f : f[i] \in RejectedRows}) <= 1}

\* Tuples a caller hands to upsert_cars itself; load_ts is the caller's.
CallerRows ==
    {[convert_one(FrameRow("http://test.se/1", Some("XYZ789"), Listed), 0)
         EXCEPT !.load_ts = NA],
     convert_one(FrameRow("http://test.se/2", Some("ABC123"), Listed), 0)}

CallerBatches == SeqsUpTo(CallerRows, MaxBatch)

----------------------------------------------------------------------------
(* Inputs of the Transformer *)

Headers == DOMAIN COLUMN_MAP

RawRow(url, regnr, year, price, odo, hp) ==
    [Url |-> url, Registreringsnummer |-> regnr]
    @@ ("Modellår" :> year)
    @@ ("Pris (kr)" :> price)
    @@ ("Mätarställning (km)" :> odo)
    @@ ("Bränsle" :> Text(<<"B", "e", "n", "s", "i", "n">>))
    @@ ("Biltyp" :> Text(<<"K", "o", "m", "b", "i">>))
    @@ ("Hästkrafter" :> hp)

UrlA == <<"a">>

UrlB == <<"b">>

RegA == Text(<<"A", "B", "C", "1", "2", "3">>)

RawRows ==
    {RawRow(Text(UrlA), RegA, Num(2020), Num(2000), Num(50), Num(150)),
     RawRow(Text(<<" ">> \o UrlA), NA, Text(<<"2", "0", "2", "0">>), Num(1), Num(8000), NA),
     RawRow(Text(UrlA \o <<" ">>), Text(<<" ">>), NA, NA, Num(5000), Num(150)),
     RawRow(Text(UrlB), NA, Num(2020), Num(100000), Num(0), NA),
     RawRow(Text(UrlB), NA, NA, Num(3), Num(8000), Text(<<"x">>)),
     RawRow(Text(UrlB), NA, Num(1899), Num(-1), Num(3), NA),
     RawRow(Text(UrlB), NA, NA, Num(2), Num(3), NumAndHalf(1)),
     RawRow(Text(<<>>), RegA, Num(2020), Num(2), Num(3), NA),
     RawRow(Text(<<" ">>), NA, NA, Text(<<"x">>), Num(3), NA),
     RawRow(NA, RegA, Num(2020), Num(2000), Num(50), Num(150))}

\* Tables with every header, and tables without the price column.
RawTables ==
    {[columns |-> c, rows |-> r] :
        c \in {Headers, Headers \ {"Pris (kr)"}}, r \in SeqsUpTo(RawRows, MaxRows)}

----------------------------------------------------------------------------
(* The Loader: load_cars and upsert_cars *)

InitLoader ==
    /\ store = {}
    /\ schema = FALSE
    /\ pc = "idle"
    /\ conn = "none"
    /\ df = <<>>
    /\ rows = <<>>
    /\ outcome = "none"
    /\ affected = 0
    /\ ops = {}
    /\ reload = FALSE

\* load_cars(df, db_path) is entered.  The content of the DataFrame is first
\* read at line 180, and the model draws it there; a caller that kept the
\* DataFrame of the successful load before passes that one again.
load_cars ==
    /\ pc = "idle"
    /\ rows' = <<>>
    /\ outcome' = "running"
    /\ ops' = {}
    /\ conn' = "none"
    /\ affected' = 0
    /\ reload' = (df # <<>>)
    /\ pc' = "get_conn"
    /\ UNCHANGED <<store, schema, df>>

\* load_cars exits: its locals are gone.  After a successful load the caller
\* either drops the DataFrame or keeps it to load it once more.
Exit(result) ==
    /\ pc' = "idle"
    /\ rows' = <<>>
    /\ reload' = FALSE
    /\ \E keep \in BOOLEAN : df' = IF keep /\ result = "ok" THEN df ELSE <<>>

\* conn = db_cars.get_conn(db_path), line 177, outside the try block.
\* sqlite3.connect may fail (no connection exists then); a pragma may fail
\* after the connection was opened, and nothing closes it: the exception
\* leaves get_conn and load_cars.
get_conn ==
    /\ pc = "get_conn"
    /\ \/ /\ conn' = "open"
          /\ ops' = {"connect", "pragma"}
          /\ pc' = "init_schema"
          /\ UNCHANGED <<outcome, df, rows, reload>>
       \/ /\ conn' = "none"
          /\ ops' = {"connect"}
          /\ outcome' = "OperationalError"
          /\ Exit("OperationalError")
       \/ /\ conn' = "open"
          /\ ops' = {"connect", "pragma"}
          /\ outcome' = "DatabaseError"
          /\ Exit("DatabaseError")
    /\ UNCHANGED <<store, schema, affected>>

\* init_schema(conn): create table / index if absent; existing rows are not
\* touched.  The script may fail (e.g. an incompatible fact_cars exists).
init_schema ==
    /\ pc = "init_schema"
    /\ ops' = ops \cup {"executescript"}
    /\ \/ /\ schema' = TRUE
          /\ pc' = "convert"
          /\ UNCHANGED outcome
       \/ /\ outcome' = "OperationalError"
          /\ pc' = "finally"
          /\ UNCHANGED schema
    /\ UNCHANGED <<store, conn, df, rows, affected, reload>>

\* rows = _convert_row_for_db(df.itertuples(...)) on the DataFrame frame;
\* now is read once.
convert_rows(frame) ==
    /\ pc = "convert"
    /\ reload => frame = df
    /\ df' = frame
    /\ \E now \in Times :
         LET conv == _convert_row_for_db(frame, now)
         IN  IF conv.ok
             THEN /\ rows' = conv.rows
                  /\ pc' = "upsert"
                  /\ UNCHANGED outcome
             ELSE /\ outcome' = "ValueError"
                  /\ pc' = "finally"
                  /\ UNCHANGED rows
    /\ UNCHANGED <<store, schema, conn, affected, ops, reload>>

\* affected = db_cars.upsert_cars(conn, rows)
upsert_step ==
    /\ pc = "upsert"
    /\ LET res == upsert_cars(store, rows)
       IN  /\ store' = res.table
           /\ outcome' = res.outcome
           /\ affected' = res.affected
           /\ ops' = ops \cup res.ops
    /\ pc' = "finally"
    /\ UNCHANGED <<schema, conn, df, rows, reload>>

\* finally: conn.close(); then load_cars returns affected or re-raises.
finally_close ==
    /\ pc = "finally"
    /\ conn' = "closed"
    /\ ops' = ops \cup {"close"}
    /\ Exit(outcome)
    /\ UNCHANGED <<store, schema, outcome, affected>>

\* A caller holding its own connection to the initialised database calls
\* upsert_cars(conn, batch).
upsert_call(batch) ==
    /\ pc = "idle"
    /\ schema
    /\ df = <<>>
    /\ LET res == upsert_cars(store, batch)
       IN  /\ store' = res.table
           /\ outcome' = res.outcome
           /\ affected' = res.affected
           /\ ops' = res.ops
    /\ rows' = batch
    /\ UNCHANGED <<schema, conn, pc, df, reload>>

InitIdleTransform ==
    /\ raw = [columns |-> {}, rows |-> <<>>]
    /\ tr = [status |-> "pending", out |-> <<>>]

Init == InitLoader /\ InitIdleTransform

Next ==
    \/ load_cars /\ UNCHANGED transformVars
    \/ get_conn /\ UNCHANGED transformVars
    \/ init_schema /\ UNCHANGED transformVars
    \/ \E frame \in DataFrames : convert_rows(frame) /\ UNCHANGED transformVars
    \/ upsert_step /\ UNCHANGED transformVars
    \/ finally_close /\ UNCHANGED transformVars
    \/ \E batch \in CallerBatches : upsert_call(batch) /\ UNCHANGED transformVars

Spec == Init /\ [][Next]_vars

\* df_raw = extract_excel(path, sheet): a run reads some raw table, once.
extract_excel(table) ==
    /\ raw.columns = {}
    /\ raw' = table
    /\ tr' = [status |-> "pending", out |-> <<>>]

\* df_tr = transform_cars(df_raw)
transform_step ==
    /\ tr.status = "pending"
    /\ tr' = transform_cars(raw)
    /\ UNCHANGED raw

NextTransform ==
    \/ \E table \in RawTables : extract_excel(table) /\ UNCHANGED loadVars
    \/ transform_step /\ UNCHANGED loadVars

SpecTransform == Init /\ [][NextTransform]_vars

----------------------------------------------------------------------------
(* Properties of the Loader (specification Spec) *)

\* A step in which upsert_cars ran: the upsert step of load_cars, or a direct
\* call.  The batch it was given is rows'.
UpsertRan == pc = "upsert" \/ (pc = "idle" /\ pc' = "idle")

UrlsOf(batch) == {batch[i].url : i \in DOMAIN batch}

WithUrl(table, us) == {e \in table : e.url \in us}

NoTs(r) == [f \in DOMAIN r \ {"load_ts"} |-> r[f]]

\* A row breaks a CHECK or NOT NULL constraint of the table.
RowViolatesCheck(r) ==
    \/ \E v \in r.model_year : v < 1900
    \/ \E v \in r.price_sek : v < 0
    \/ \E v \in r.odometer_km : v < 0
    \/ \E v \in r.horsepower : v < 0
    \/ \E v \in r.price_per_1000km : v < 0
    \/ r.load_ts = NA

\* The table once the first n rows of the batch are applied: the rows whose
\* url the prefix does not mention, and the last prefix row of each url.
After(table, batch, n) ==
    {e \in table : \A j \in 1..n : batch[j].url # e.url}
    \cup {batch[j] : j \in {k \in 1..n : \A m \in (k+1)..n : batch[m].url # batch[k].url}}

\* Row i carries the regnr of a row with another url that is in the table at
\* the moment row i is applied.
RegnrTaken(table, batch, i) ==
    /\ batch[i].regnr # NA
    /\ \E e \in After(table, batch, i - 1) :
          e.url # batch[i].url /\ e.regnr = batch[i].regnr

BatchRejected(table, batch) ==
    \E i \in DOMAIN batch : RowViolatesCheck(batch[i]) \/ RegnrTaken(table, batch, i)

\* C1: a load is atomic.  When some row of the batch breaks a check
\* constraint or the uniqueness of regnr, the load raises and the stored rows
\* are exactly those stored before (also the rows that preceded the offending
\* one are not applied); otherwise every row of the batch is applied.
C1_Atomic ==
    [][UpsertRan =>
         IF BatchRejected(store, rows')
         THEN outcome' = "IntegrityError" /\ store' = store
         ELSE outcome' = "ok" /\ store' = After(store, rows', Len(rows'))]_vars

\* A two-row load was rejected although its first row was acceptable and new.
C1_Witness ==
    /\ pc = "finally"
    /\ outcome = "IntegrityError"
    /\ Len(rows) = 2
    /\ ~RowViolatesCheck(rows[1])
    /\ store # {}
    /\ \A e \in store : e.url # rows[1].url /\ (rows[1].regnr = NA \/ e.regnr # rows[1].regnr)

\* A call of upsert_cars has just returned normally with batch rows.
Loaded == outcome = "ok" /\ pc \in {"finally", "idle"}

\* C2: after a successful load every url of the batch has exactly one stored
\* row, and that row equals the record that came in for the url (the last
\* one, should the batch name the url twice) in every field, nulls included.
C2_FullReplace ==
    Loaded =>
        \A i \in DOMAIN rows :
            /\ Cardinality(WithUrl(store, {rows[i].url})) = 1
            /\ (\A j \in (i+1)..Len(rows) : rows[j].url # rows[i].url)
                  => WithUrl(store, {rows[i].url}) = {rows[i]}

\* A batch first stored the fully populated row of a url and then replaced
\* it by a row of the same url whose other fields are all null.
C2_Witness ==
    /\ pc = "finally"
    /\ outcome = "ok"
    /\ Len(rows) = 2
    /\ rows[1].url = rows[2].url
    /\ rows[1].regnr # NA /\ rows[1].price_sek # NA /\ rows[1].fuel # NA
    /\ rows[2].regnr = NA /\ rows[2].price_sek = NA /\ rows[2].fuel = NA
    /\ rows[2] \in store

\* load_cars is about to upsert the DataFrame that the call before, a
\* successful load_cars, was given.
Reloading == pc = "upsert" /\ reload

\* C3 as stated: re-loading an identical batch leaves the stored rows of its
\* urls unchanged, in number and in every field.
C3_Original ==
    [][Reloading => WithUrl(store', UrlsOf(rows)) = WithUrl(store, UrlsOf(rows))]_vars

\* C3 amended: re-loading an identical batch leaves the number of stored rows
\* of its urls unchanged and every field of them other than load_ts unchanged.
C3_Idempotent ==
    [][Reloading =>
         /\ Cardinality(WithUrl(store', UrlsOf(rows))) = Cardinality(WithUrl(store, UrlsOf(rows)))
         /\ {NoTs(e) : e \in WithUrl(store', UrlsOf(rows))}
               = {NoTs(e) : e \in WithUrl(store, UrlsOf(rows))}
         /\ store' \ WithUrl(store', UrlsOf(rows)) = store \ WithUrl(store, UrlsOf(rows))]_vars

\* A non-empty DataFrame was loaded a second time, successfully.
C3_Witness ==
    /\ pc = "finally"
    /\ reload
    /\ Len(df) = 2
    /\ outcome = "ok"

\* No two stored rows share a url, none share a non-null regnr.
StoreUnique ==
    \A a, b \in store :
        a # b => a.url # b.url /\ (a.regnr = NA \/ a.regnr # b.regnr)

\* C7 as stated: the store stays unique, and a load with a row whose non-null
\* regnr is the regnr of a row stored (before the load) under another url
\* raises.
C7_Original ==
    /\ []StoreUnique
    /\ [][(UpsertRan /\ \E i \in DOMAIN rows' : \E e \in store :
               /\ rows'[i].regnr # NA
               /\ e.regnr = rows'[i].regnr
               /\ e.url # rows'[i].url)
            => outcome' = "IntegrityError"]_vars

\* C7 amended: the store stays unique; a load with a row whose non-null regnr
\* is, at the moment the row is applied (after the rows before it in the
\* batch), the regnr of a row under another url raises and stores nothing;
\* a batch of acceptable rows with null regnr is never rejected.
C7_RegnrUnique ==
    /\ []StoreUnique
    /\ [][UpsertRan =>
            /\ (\E i \in DOMAIN rows' : RegnrTaken(store, rows', i))
                  => outcome' = "IntegrityError" /\ store' = store
            /\ (\A i \in DOMAIN rows' : rows'[i].regnr = NA /\ ~RowViolatesCheck(rows'[i]))
                  => outcome' = "ok"]_vars

\* A single acceptable row was rejected because its regnr is stored under
\* another url.
C7_Witness ==
    /\ pc = "finally"
    /\ outcome = "IntegrityError"
    /\ Len(rows) = 1
    /\ ~RowViolatesCheck(rows[1])
    /\ \E e \in store : e.regnr = rows[1].regnr /\ e.url # rows[1].url

\* C9 as stated: a successful load returns the length of the batch, and a
\* load of an empty table returns 0 without any database interaction and
\* without touching the store.
C9_Original ==
    /\ []((pc = "finally" /\ outcome = "ok") =>
              /\ affected = Len(df)
              /\ df = <<>> => ops = {})
    /\ [][(pc = "upsert" /\ rows = <<>>) => store' = store]_vars

\* C9 amended: a successful load returns the length of the batch, rows equal
\* to stored ones included; for an empty table the upsert returns 0, raises
\* nothing, performs no database operation of its own and leaves the stored
\* rows untouched (load_cars has opened the connection and run the schema
\* script by then).
C9_ReturnsSubmitted ==
    /\ []((pc = "finally" /\ outcome = "ok") => affected = Len(df))
    /\ []((pc = "idle" /\ outcome = "ok" /\ rows # <<>>) => affected = Len(rows))
    /\ [][(pc = "upsert" /\ rows = <<>>) =>
             /\ store' = store
             /\ outcome' = "ok"
             /\ affected' = 0
             /\ ops' = ops
             /\ ops = {"connect", "pragma", "executescript"}]_vars
    /\ [][(pc = "idle" /\ pc' = "idle" /\ rows' = <<>>) =>
             store' = store /\ outcome' = "ok" /\ affected' = 0 /\ ops' = {}]_vars

\* load_cars has upserted an empty DataFrame and is about to return 0.
C9_Witness ==
    /\ pc = "finally"
    /\ outcome = "ok"
    /\ df = <<>>
    /\ affected = 0
    /\ "executemany" \notin ops

\* C10: no exit of load_cars leaves the connection it acquired open.
C10_Released == pc = "idle" => conn # "open"

----------------------------------------------------------------------------
(* Properties of the Transformer (specification SpecTransform) *)

Transformed == tr.status = "ok"

\* The url of input row i after clean-up.
CleanUrl(i) == clean_string(_safe_get(raw, "Url")[i])

\* The input rows that carry a url and are the last ones to carry it.
LastOfUrl ==
    {i \in DOMAIN raw.rows :
        /\ CleanUrl(i) # NA
        /\ \A j \in (i+1)..Len(raw.rows) : CleanUrl(j) # CleanUrl(i)}

\* The cleaned values of input row i.
Cleaned(i) ==
    LET norm == _normalize_columns(raw).rows[i]
    IN  norm @@ [price_per_1000km |-> p_per_1000(norm)]

\* C4: the output has exactly one row for each distinct cleaned url of the
\* input and none without url; the row of a url is the cleaned last input row
\* with that url; the rows keep the relative order they had in the input.
C4_LastWins ==
    Transformed =>
        /\ \A k \in DOMAIN tr.out : tr.out[k].url # NA
        /\ \A i \in DOMAIN raw.rows :
              CleanUrl(i) # NA =>
                 Cardinality({k \in DOMAIN tr.out : tr.out[k].url = CleanUrl(i)}) = 1
        /\ Len(tr.out) = Cardinality(LastOfUrl)
        /\ \A i \in LastOfUrl :
              tr.out[Cardinality({j \in LastOfUrl : j <= i})] = Cleaned(i)

\* Three rows, the first and the third with the same url after clean-up, gave
\* two output rows.
C4_Witness ==
    /\ Transformed
    /\ Len(raw.rows) = 3
    /\ Len(tr.out) = 2
    /\ CleanUrl(1) = CleanUrl(3)
    /\ CleanUrl(1) # CleanUrl(2)
    /\ raw.rows[1] # raw.rows[3]

Abs(x) == IF x < 0 THEN -x ELSE x

\* q hundredths is price / odo * 1000 rounded to 2 decimals.
IsRounded(q, price, odo) ==
    LET err == Abs(q * odo - price * 100000)
    IN  /\ 2 * err <= Abs(odo)
        /\ 2 * err = Abs(odo) => q % 2 = 0

C6_NeverFatal == tr.status \in {"pending", "ok"}

\* C8: every output row satisfies the domain constraints, so the store's
\* check constraints accept the row once it is converted and stamped.
C8_DomainEnforced ==
    Transformed =>
        \A k \in DOMAIN tr.out :
            /\ \A c \in tr.out[k].model_year : c.v >= 1900
            /\ \A c \in tr.out[k].price_sek : c.v >= 0
            /\ \A c \in tr.out[k].odometer_km : c.v >= 0
            /\ \A c \in tr.out[k].horsepower : c.v >= 0
            /\ \A v \in tr.out[k].price_per_1000km : v >= 0
            /\ DDL_Checks(convert_one(tr.out[k], 0))

====
